---- MODULE Spec2Model ----
(***************************************************************************)
(* A model of gbasis: the GeneralizedContractionShell data class           *)
(* (gbasis/contractions.py), make_contractions, and the callers of the     *)
(* overlap engine.                                                         *)
(*                                                                         *)
(* Python values are records.  A numpy array is a header                   *)
(*   [tag, dtype, shape, buf, off]                                         *)
(* over a buffer of the memory `mem` (buf -> flat sequence of numbers):    *)
(* two headers with the same buf are views of the same data, as in numpy.  *)
(* Floating point numbers are modelled by the integers (1.0 is 1).         *)
(***************************************************************************)
EXTENDS Integers, Sequences, FiniteSets, TLC

VARIABLES
    pc,            \* position of the caller of GeneralizedContractionShell
    shell,         \* the attributes of the shell under construction / in use
    last,          \* the last statement executed on the shell and its outcome
    overlapCalls,  \* calls of Overlap.construct_array_contraction made so far
    ops,           \* statements executed on the shell since its construction
    ctorDocumented,\* history: __init__ was given arrays of the documented shapes
    mem,           \* the array buffers
    bpc,           \* position of the caller of make_contractions
    margs,         \* the atoms and coords the caller passes, and keeps
    basis,         \* the tuple of shells make_contractions returned
    blast,         \* the last statement of that caller
    bops,          \* statements that caller executed after the call
    ctorCalls,     \* calls of GeneralizedContractionShell make_contractions made
    fpc,           \* position of the caller of a function of the integrals
    fargs,         \* the function it calls and the arguments it passes
    fres           \* what the call returned or raised

svars == <<pc, shell, last, overlapCalls, ops, ctorDocumented>>
bvars == <<bpc, margs, basis, blast, bops, ctorCalls>>
fvars == <<fpc, fargs, fres>>
vars == <<svars, mem, bvars, fvars>>

\* ------------------------------------------------------------------ bounds

\* Largest integer angular momentum the caller passes.
MaxAngmom == 2
\* Statements the caller executes on a constructed shell.
MaxOps == 2
\* Longest list of atoms given to make_contractions.
MaxAtoms == 2
\* Statements the caller executes on the basis make_contractions returned.
MaxBasisOps == 2
\* Largest number the caller writes into an array.
MaxVal == 1

\* ------------------------------------------------------------ Python values

NoArr == [tag |-> "unset", dtype |-> "", shape |-> <<>>, buf |-> 0, off |-> 0]
NoVal == [tag |-> "unset", val |-> 0]

PyInt(n) == [tag |-> "int", val |-> n]
\* bool is a subclass of int: True is 1
PyBool(n) == [tag |-> "bool", val |-> n]
\* a Python float with the given (integral) value
PyFloat(n) == [tag |-> "float", val |-> n]
\* numpy.int64 scalar: not an instance of int in Python 3
NpInt(n) == [tag |-> "npint", val |-> n]
PyStr == [tag |-> "str", val |-> 0]

\* The values a caller passes where an array is expected.  Each has a buffer of
\* its own, numbered by its position here.
Pool == <<
    [tag |-> "ndarray", dtype |-> "float64", shape |-> <<3>>,       data |-> <<1, 2, 3>>],
    [tag |-> "ndarray", dtype |-> "int64",   shape |-> <<3>>,       data |-> <<1, 0, 2>>],
    [tag |-> "ndarray", dtype |-> "float64", shape |-> <<1, 3>>,    data |-> <<0, 0, 1>>],
    [tag |-> "ndarray", dtype |-> "float32", shape |-> <<3>>,       data |-> <<1, 1, 1>>],
    [tag |-> "ndarray", dtype |-> "float64", shape |-> <<2>>,       data |-> <<1, 2>>],
    [tag |-> "ndarray", dtype |-> "float64", shape |-> <<2>>,       data |-> <<-1, 0>>],
    [tag |-> "ndarray", dtype |-> "float64", shape |-> <<2, 2>>,    data |-> <<1, 0, 0, 1>>],
    [tag |-> "ndarray", dtype |-> "float64", shape |-> <<4>>,       data |-> <<1, 2, 3, 4>>],
    [tag |-> "ndarray", dtype |-> "float64", shape |-> <<2, 1>>,    data |-> <<2, 1>>],
    [tag |-> "ndarray", dtype |-> "float64", shape |-> <<>>,        data |-> <<1>>],
    [tag |-> "ndarray", dtype |-> "float64", shape |-> <<1, 1, 3>>, data |-> <<1, 2, 3>>],
    [tag |-> "list",    dtype |-> "",        shape |-> <<>>,        data |-> <<0>>],
    [tag |-> "ndarray", dtype |-> "float64", shape |-> <<1>>,       data |-> <<2>>],
    [tag |-> "ndarray", dtype |-> "int64",   shape |-> <<2>>,       data |-> <<1, 2>>],
    [tag |-> "ndarray", dtype |-> "float64", shape |-> <<2, 3>>,    data |-> <<0, 0, 0, 0, 0, 1>>],
    [tag |-> "ndarray", dtype |-> "int64",   shape |-> <<2, 3>>,    data |-> <<0, 0, 0, 0, 0, 1>>]
>>

PoolBufs == 1 .. Len(Pool)

Value(i) == [tag |-> Pool[i].tag, dtype |-> Pool[i].dtype, shape |-> Pool[i].shape,
             buf |-> i, off |-> 0]

ArrayInputs == {Value(i) : i \in PoolBufs}
\* those given to a shell: the other two, of six elements, are coords arrays
\* for make_contractions, which every setter rejects like the array of four
ShellInputs ==
    {a \in ArrayInputs : ~(Len(a.shape) = 2 /\ a.shape[1] * a.shape[2] = 6)}

AngmomInputs ==
    {PyInt(n) : n \in -1 .. MaxAngmom} \cup {PyBool(1), PyFloat(1), NpInt(1), PyStr}

\* The buffer a copy made for shell k (coord.astype(float)) lives in.
OwnBuf(k) == Len(Pool) + k

RECURSIVE Prod(_)
Prod(s) == IF s = <<>> THEN 1 ELSE Head(s) * Prod(Tail(s))

IsNdarray(a) == a.tag = "ndarray"
Ndim(a) == Len(a.shape)
\* ndarray.size
Size(a) == Prod(a.shape)
\* the elements of the array, read through the header
Data(m, a) == [i \in 1 .. Size(a) |-> m[a.buf][a.off + i]]
HasAttr(x) == x.tag # "unset"

\* ---------------------------------------------------------------- the shell

NoShell == [class |-> "GeneralizedContractionShell", angmom |-> NoVal, coord |-> NoArr,
            coeffs |-> NoArr, exps |-> NoArr, norm_cont |-> NoArr]

Raise(self, m, e) == [exc |-> e, self |-> self, mem |-> m]
Return(self, m) == [exc |-> "none", self |-> self, mem |-> m]

\* ndarray.astype(float): a new array with a buffer of its own
AsTypeFloat(m, a, newbuf) ==
    [arr |-> [a EXCEPT !.dtype = "float64", !.buf = newbuf, !.off = 0],
     mem |-> [m EXCEPT ![newbuf] = Data(m, a)]]

CoordSetter(self, m, coord, newbuf) ==
    IF ~(IsNdarray(coord) /\ Size(coord) = 3)
    THEN Raise(self, m, "TypeError")
    ELSE LET conv == IF coord.dtype = "int64"
                     THEN AsTypeFloat(m, coord, newbuf)
                     ELSE [arr |-> coord, mem |-> m]
         IN IF conv.arr.dtype # "float64"
            THEN Raise(self, m, "TypeError")
            ELSE Return([self EXCEPT !.coord = conv.arr], conv.mem)

IsInstanceInt(v) == v.tag \in {"int", "bool"}

\* mutant: a negative value is not rejected
AngmomSetterNoSign(self, m, angmom) ==
    IF ~IsInstanceInt(angmom) THEN Raise(self, m, "TypeError")
    ELSE Return([self EXCEPT !.angmom = angmom], m)

\* mutant: the value is stored before it is checked to be non-negative
AngmomSetterStoreFirst(self, m, angmom) ==
    IF ~IsInstanceInt(angmom) THEN Raise(self, m, "TypeError")
    ELSE IF angmom.val < 0 THEN Raise([self EXCEPT !.angmom = angmom], m, "ValueError")
    ELSE Return([self EXCEPT !.angmom = angmom], m)

AngmomSetter(self, m, angmom) ==
    IF ~IsInstanceInt(angmom) THEN Raise(self, m, "TypeError")
    ELSE IF angmom.val < 0 THEN Raise(self, m, "ValueError")
    ELSE Return([self EXCEPT !.angmom = angmom], m)

\* mutant: the number of exponents is not compared with the rows of coeffs
ExpsSetterNoCount(self, m, exps) ==
    IF ~(IsNdarray(exps) /\ exps.dtype = "float64")
    THEN Raise(self, m, "TypeError")
    ELSE Return([self EXCEPT !.exps = exps], m)

\* mutant: the exponents are stored before their number is compared
ExpsSetterStoreFirst(self, m, exps) ==
    IF ~(IsNdarray(exps) /\ exps.dtype = "float64")
    THEN Raise(self, m, "TypeError")
    ELSE IF HasAttr(self.coeffs) /\ self.coeffs.shape[1] # Size(exps)
    THEN Raise([self EXCEPT !.exps = exps], m, "ValueError")
    ELSE Return([self EXCEPT !.exps = exps], m)

ExpsSetter(self, m, exps) ==
    IF ~(IsNdarray(exps) /\ exps.dtype = "float64")
    THEN Raise(self, m, "TypeError")
    ELSE IF HasAttr(self.coeffs) /\ self.coeffs.shape[1] # Size(exps)
    THEN Raise(self, m, "ValueError")
    ELSE Return([self EXCEPT !.exps = exps], m)

\* mutant: no axis is inserted
NewAxisColumnForgotten(a) == a

\* coeffs[:, np.newaxis]: a view of the same buffer with a second axis of 1
NewAxisColumn(a) == [a EXCEPT !.shape = <<a.shape[1], 1>>]

CoeffsSetter(self, m, coeffs) ==
    IF ~(IsNdarray(coeffs) /\ coeffs.dtype = "float64")
    THEN Raise(self, m, "TypeError")
    ELSE IF Ndim(coeffs) \notin {1, 2}
    THEN Raise(self, m, "ValueError")
    ELSE IF HasAttr(self.exps) /\ Ndim(coeffs) = 2 /\ Ndim(self.exps) = 0
    THEN Raise(self, m, "IndexError")       \* self.exps.shape[0] of a 0-d array
    ELSE IF HasAttr(self.exps) /\ Ndim(coeffs) = 2
            /\ coeffs.shape[1] # self.exps.shape[1]
    THEN Raise(self, m, "ValueError")
    ELSE IF HasAttr(self.exps) /\ Ndim(coeffs) = 1 /\ coeffs.shape # self.exps.shape
    THEN Raise(self, m, "ValueError")
    ELSE IF Ndim(coeffs) = 1
    THEN Return([self EXCEPT !.coeffs = NewAxisColumn(coeffs)], m)
    ELSE Return([self EXCEPT !.coeffs = coeffs], m)

\* the rows of angmom_components_cart from (x, y) on, in the order of the
\* two nested reversed ranges
\* mutant: range(self.angmom - x) for y, one short
RECURSIVE CartRowsShort(_, _, _)
CartRowsShort(l, x, y) ==
    IF x < 0 THEN <<>>
    ELSE IF y < 0 THEN CartRowsShort(l, x - 1, l - (x - 1) - 1)
    ELSE <<<<x, y, l - x - y>>>> \o CartRowsShort(l, x, y - 1)

RECURSIVE CartRows(_, _, _)
CartRows(l, x, y) ==
    IF x < 0 THEN <<>>
    ELSE IF y < 0 THEN CartRows(l, x - 1, l - (x - 1))
    ELSE <<<<x, y, l - x - y>>>> \o CartRows(l, x, y - 1)

AngmomComponentsCart(self) == CartRows(self.angmom.val, self.angmom.val, 0)

NumCart(self) == ((self.angmom.val + 1) * (self.angmom.val + 2)) \div 2
NumSph(self) == 1 + 2 * self.angmom.val
NumSegCont(self) == self.coeffs.shape[2]

Max(a, b) == IF a >= b THEN a ELSE b

\* The shape of norm_prim_cart, or the exception numpy raises computing it:
\* exps[np.newaxis, :] has shape (1, d1, .., dn) and is divided by an array of
\* shape (L, 1), under numpy's broadcasting rules.  A zero or negative
\* exponent gives 0, inf or nan with a RuntimeWarning, not an exception.
NormPrimCart(self) ==
    LET L == NumCart(self)
        s == self.exps.shape
        n == Len(s)
    IN IF n = 0 THEN [exc |-> "IndexError", shape |-> <<>>]
       ELSE IF n = 1 THEN [exc |-> "none", shape |-> <<L, s[1]>>]
       ELSE IF s[n - 1] # 1 /\ L # 1 /\ s[n - 1] # L
       THEN [exc |-> "ValueError", shape |-> <<>>]
       ELSE [exc |-> "none",
             shape |-> <<1>> \o [s EXCEPT ![n - 1] = Max(s[n - 1], L)]]

\* What the engine is given is what it is specified for: a center of shape
\* (3,) and a one-dimensional array of exponents.
WellFormed(self) == self.coord.shape = <<3>> /\ Ndim(self.exps) = 1

EngineChoices == {"ok", "raise"}

\* gbasis._moment_int._compute_multipole_moment_integrals: one block of shape
\* (M_1, L_1, M_2, L_2) per order of the moment.  On arrays it is not
\* specified for, it either raises or returns (eng).
ComputeMultipoleMomentIntegrals(numOrders, one, two, eng) ==
    IF ~(WellFormed(one) /\ WellFormed(two)) /\ eng = "raise"
    THEN [exc |-> "EngineError", shape |-> <<>>]
    ELSE [exc |-> "none",
          shape |-> <<numOrders, NumSegCont(one), NumCart(one),
                      NumSegCont(two), NumCart(two)>>]

IsShell(x) == x.class = "GeneralizedContractionShell"

\* np.zeros((1, 3), dtype=int): the orders of the moment asked of the engine
ZeroOrders == << <<0, 0, 0>> >>

\* an exception that leaves construct_array_contraction before the engine is
\* called; `blame` is the argument or property it is about
NoBlock(e, blame) ==
    [exc |-> e, shape |-> <<>>, blame |-> blame, engine |-> 0, orders |-> <<>>]

\* mutant: the second argument is not checked to be a shell
ConstructArrayContractionOneChecked(one, two, eng) ==
    IF ~IsShell(one) THEN NoBlock("TypeError", "contractions_one")
    ELSE IF NormPrimCart(one).exc # "none" THEN NoBlock(NormPrimCart(one).exc, "norm_prim_cart")
    ELSE IF NormPrimCart(two).exc # "none" THEN NoBlock(NormPrimCart(two).exc, "norm_prim_cart")
    ELSE LET r == ComputeMultipoleMomentIntegrals(Len(ZeroOrders), one, two, eng)
         IN [exc |-> r.exc, shape |-> IF r.exc # "none" THEN <<>> ELSE Tail(r.shape),
             blame |-> "", engine |-> 1, orders |-> ZeroOrders]

\* Overlap.construct_array_contraction: the block the engine returns for the
\* one order given (the [0]), with the number of calls of the engine made
\* (engine) and the orders it was given
ConstructArrayContraction(one, two, eng) ==
    IF ~IsShell(one) THEN NoBlock("TypeError", "contractions_one")
    ELSE IF ~IsShell(two) THEN NoBlock("TypeError", "contractions_two")
    ELSE IF NormPrimCart(one).exc # "none" THEN NoBlock(NormPrimCart(one).exc, "norm_prim_cart")
    ELSE IF NormPrimCart(two).exc # "none" THEN NoBlock(NormPrimCart(two).exc, "norm_prim_cart")
    ELSE LET r == ComputeMultipoleMomentIntegrals(Len(ZeroOrders), one, two, eng)
         IN [exc |-> r.exc, shape |-> IF r.exc # "none" THEN <<>> ELSE Tail(r.shape),
             blame |-> "", engine |-> 1, orders |-> ZeroOrders]

\* np.einsum("ijij->ij", a): the diagonal, of shape (M, L).  The values of
\* norm_cont are not modelled, its shape is.
AssignNormCont(self, m, eng) ==
    LET r == ConstructArrayContraction(self, self, eng)
    IN IF r.exc # "none" THEN Raise(self, m, r.exc)
       ELSE Return([self EXCEPT !.norm_cont =
                        [tag |-> "ndarray", dtype |-> "float64",
                         shape |-> <<r.shape[1], r.shape[2]>>, buf |-> 0, off |-> 0]], m)

\* __init__, as one call: the four assignments, then assign_norm_cont
Construct(m, angmom, coord, coeffs, exps, newbuf, eng) ==
    LET r1 == AngmomSetter(NoShell, m, angmom) IN
    IF r1.exc # "none" THEN r1 ELSE
    LET r2 == CoordSetter(r1.self, r1.mem, coord, newbuf) IN
    IF r2.exc # "none" THEN r2 ELSE
    LET r3 == CoeffsSetter(r2.self, r2.mem, coeffs) IN
    IF r3.exc # "none" THEN r3 ELSE
    LET r4 == ExpsSetter(r3.self, r3.mem, exps) IN
    IF r4.exc # "none" THEN r4 ELSE
    AssignNormCont(r4.self, r4.mem, eng)

\* -------------------------------------------------------- make_contractions

AtomStr(name) == [tag |-> "str", name |-> name]
\* an entry of atoms that is not a string
AtomNum == [tag |-> "int", name |-> ""]

\* basis_dict, as the parsers return it: atom -> list of (angmom, exps, coeffs)
BasisDict ==
    [a \in {"H", "He"} |->
        IF a = "H"
        THEN << [angmom |-> PyInt(0), exps |-> Value(5), coeffs |-> Value(5)],
                [angmom |-> PyInt(1), exps |-> Value(13), coeffs |-> Value(13)] >>
        ELSE << [angmom |-> PyInt(0), exps |-> Value(5), coeffs |-> Value(7)] >>]

\* the most shells of one atom, and of a basis
MaxPerAtom == Len(BasisDict["H"])
MaxShells == MaxAtoms * MaxPerAtom

RECURSIVE SeqsUpTo(_, _)
SeqsUpTo(S, n) ==
    IF n = 0 THEN {<<>>}
    ELSE SeqsUpTo(S, n - 1) \cup
         {Append(q, x) : q \in {t \in SeqsUpTo(S, n - 1) : Len(t) = n - 1}, x \in S}

AtomsInputs ==
    {[tag |-> "list", items |-> q] : q \in SeqsUpTo({AtomStr("H"), AtomStr("He")}, MaxAtoms)}
    \cup {[tag |-> "tuple", items |-> <<AtomStr("He")>>],
          [tag |-> "list", items |-> <<AtomStr("X")>>],
          [tag |-> "list", items |-> <<AtomNum>>],
          [tag |-> "str", items |-> <<AtomStr("H")>>],
          [tag |-> "ndarray", items |-> <<AtomStr("H")>>]}

\* the i-th item of iterating a two-dimensional array: a view of row i
RowView(a, i) ==
    [a EXCEPT !.shape = Tail(a.shape), !.off = a.off + (i - 1) * Prod(Tail(a.shape))]

\* mutant: each shell is put in front of the list instead of appended
RECURSIVE BuildBasisPrepend(_, _, _, _, _, _, _)
BuildBasisPrepend(m, atoms, coords, i, j, acc, eng) ==
    IF i > Len(atoms) THEN [exc |-> "none", basis |-> acc, mem |-> m, made |-> Len(acc)]
    ELSE IF atoms[i].name \notin DOMAIN BasisDict
    THEN [exc |-> "KeyError", basis |-> <<>>, mem |-> m, made |-> Len(acc)]
    ELSE IF j > Len(BasisDict[atoms[i].name])
    THEN BuildBasisPrepend(m, atoms, coords, i + 1, 1, acc, eng)
    ELSE LET e == BasisDict[atoms[i].name][j]
             r == Construct(m, e.angmom, RowView(coords, i), e.coeffs, e.exps,
                            OwnBuf(Len(acc) + 1), eng)
         IN IF r.exc # "none"
            THEN [exc |-> r.exc, basis |-> <<>>, mem |-> r.mem, made |-> Len(acc) + 1]
            ELSE BuildBasisPrepend(r.mem, atoms, coords, i, j + 1, <<r.self>> \o acc, eng)

\* the two nested loops of make_contractions from (atom i, entry j) on; acc is
\* the list `basis` so far, and `made` counts the calls of the constructor
RECURSIVE BuildBasis(_, _, _, _, _, _, _)
BuildBasis(m, atoms, coords, i, j, acc, eng) ==
    IF i > Len(atoms) THEN [exc |-> "none", basis |-> acc, mem |-> m, made |-> Len(acc)]
    ELSE IF atoms[i].name \notin DOMAIN BasisDict
    THEN [exc |-> "KeyError", basis |-> <<>>, mem |-> m, made |-> Len(acc)]
    ELSE IF j > Len(BasisDict[atoms[i].name])
    THEN BuildBasis(m, atoms, coords, i + 1, 1, acc, eng)
    ELSE LET e == BasisDict[atoms[i].name][j]
             r == Construct(m, e.angmom, RowView(coords, i), e.coeffs, e.exps,
                            OwnBuf(Len(acc) + 1), eng)
         IN IF r.exc # "none"
            THEN [exc |-> r.exc, basis |-> <<>>, mem |-> r.mem, made |-> Len(acc) + 1]
            ELSE BuildBasis(r.mem, atoms, coords, i, j + 1, Append(acc, r.self), eng)

\* mutant: the entries of atoms are not checked to be strings
MakeContractionsNoItemCheck(m, atoms, coords, eng) ==
    IF atoms.tag \notin {"list", "tuple"}
    THEN [exc |-> "TypeError", basis |-> <<>>, mem |-> m, made |-> 0]
    ELSE IF ~(IsNdarray(coords) /\ Ndim(coords) = 2 /\ coords.shape[2] = 3)
    THEN [exc |-> "TypeError", basis |-> <<>>, mem |-> m, made |-> 0]
    ELSE IF Len(atoms.items) # coords.shape[1]
    THEN [exc |-> "ValueError", basis |-> <<>>, mem |-> m, made |-> 0]
    ELSE BuildBasis(m, atoms.items, coords, 1, 1, <<>>, eng)

MakeContractions(m, atoms, coords, eng) ==
    IF ~(atoms.tag \in {"list", "tuple"}
         /\ \A i \in 1 .. Len(atoms.items) : atoms.items[i].tag = "str")
    THEN [exc |-> "TypeError", basis |-> <<>>, mem |-> m, made |-> 0]
    ELSE IF ~(IsNdarray(coords) /\ Ndim(coords) = 2 /\ coords.shape[2] = 3)
    THEN [exc |-> "TypeError", basis |-> <<>>, mem |-> m, made |-> 0]
    ELSE IF Len(atoms.items) # coords.shape[1]
    THEN [exc |-> "ValueError", basis |-> <<>>, mem |-> m, made |-> 0]
    ELSE BuildBasis(m, atoms.items, coords, 1, 1, <<>>, eng)

\* ------------------------------------------------- one shell and its caller

NoOp == [op |-> "none", phase |-> "none", ang |-> NoVal, arr |-> NoArr, exc |-> "none"]

InitMem == [b \in 1 .. OwnBuf(MaxShells) |-> IF b \in PoolBufs THEN Pool[b].data ELSE <<>>]

NoArgs == [atoms |-> [tag |-> "none", items |-> <<>>], coords |-> NoArr]
NoStmt == [op |-> "none", who |-> 0, exc |-> "none"]

BasisIdle ==
    /\ bpc = "off"
    /\ margs = NoArgs
    /\ basis = <<>>
    /\ blast = NoStmt
    /\ bops = 0
    /\ ctorCalls = 0

NoCall == [fn |-> "none"]
NoResult == [exc |-> "none"]

FuncIdle ==
    /\ fpc = "off"
    /\ fargs = NoCall
    /\ fres = NoResult

Init ==
    /\ pc = "angmom"
    /\ shell = NoShell
    /\ last = NoOp
    /\ overlapCalls = 0
    /\ ops = 0
    /\ ctorDocumented = FALSE
    /\ mem = InitMem
    /\ BasisIdle
    /\ FuncIdle

\* One statement of __init__ (phase "init": an exception leaves __init__ and
\* no shell is returned) or of the caller of a constructed shell (phase "set":
\* the caller catches the exception and keeps the shell).
Apply(r, op, phase, ang, arr, nextpc) ==
    /\ shell' = r.self
    /\ mem' = r.mem
    /\ last' = [op |-> op, phase |-> phase, ang |-> ang, arr |-> arr, exc |-> r.exc]
    /\ pc' = IF r.exc = "none" THEN nextpc
             ELSE IF phase = "init" THEN "raised" ELSE "ready"
    /\ ops' = IF phase = "set" THEN ops + 1 ELSE ops
    /\ UNCHANGED <<bvars, fvars>>

\* __init__: self.angmom = angmom
InitAngmom ==
    /\ pc = "angmom"
    /\ \E a \in AngmomInputs :
           Apply(AngmomSetter(shell, mem, a), "angmom", "init", a, NoArr, "coord")
    /\ UNCHANGED <<overlapCalls, ctorDocumented>>

\* __init__: self.coord = coord
InitCoord ==
    /\ pc = "coord"
    /\ \E a \in ShellInputs :
           Apply(CoordSetter(shell, mem, a, OwnBuf(1)), "coord", "init", NoVal, a, "coeffs")
    /\ UNCHANGED <<overlapCalls, ctorDocumented>>

\* __init__: self.coeffs = coeffs
InitCoeffs ==
    /\ pc = "coeffs"
    /\ \E a \in ShellInputs :
           Apply(CoeffsSetter(shell, mem, a), "coeffs", "init", NoVal, a, "exps")
    /\ UNCHANGED <<overlapCalls, ctorDocumented>>

\* __init__: self.exps = exps
InitExps ==
    /\ pc = "exps"
    /\ \E a \in ShellInputs :
           Apply(ExpsSetter(shell, mem, a), "exps", "init", NoVal, a, "norm")
    /\ UNCHANGED <<overlapCalls, ctorDocumented>>

\* __init__: self.assign_norm_cont()
InitNorm ==
    /\ pc = "norm"
    /\ \E eng \in EngineChoices :
           Apply(AssignNormCont(shell, mem, eng), "norm", "init", NoVal, NoArr, "ready")
    /\ overlapCalls' = overlapCalls + 1
    /\ ctorDocumented' = WellFormed(shell)

\* shell.angmom = a, on a constructed shell
SetAngmom ==
    /\ pc = "ready" /\ ops < MaxOps
    /\ \E a \in AngmomInputs :
           Apply(AngmomSetter(shell, mem, a), "angmom", "set", a, NoArr, "ready")
    /\ UNCHANGED <<overlapCalls, ctorDocumented>>

SetCoord ==
    /\ pc = "ready" /\ ops < MaxOps
    /\ \E a \in ShellInputs :
           Apply(CoordSetter(shell, mem, a, OwnBuf(1)), "coord", "set", NoVal, a, "ready")
    /\ UNCHANGED <<overlapCalls, ctorDocumented>>

SetCoeffs ==
    /\ pc = "ready" /\ ops < MaxOps
    /\ \E a \in ShellInputs :
           Apply(CoeffsSetter(shell, mem, a), "coeffs", "set", NoVal, a, "ready")
    /\ UNCHANGED <<overlapCalls, ctorDocumented>>

SetExps ==
    /\ pc = "ready" /\ ops < MaxOps
    /\ \E a \in ShellInputs :
           Apply(ExpsSetter(shell, mem, a), "exps", "set", NoVal, a, "ready")
    /\ UNCHANGED <<overlapCalls, ctorDocumented>>

\* shell.assign_norm_cont(), on a constructed shell
CallAssignNormCont ==
    /\ pc = "ready" /\ ops < MaxOps
    /\ \E eng \in EngineChoices :
           Apply(AssignNormCont(shell, mem, eng), "norm", "set", NoVal, NoArr, "ready")
    /\ overlapCalls' = overlapCalls + 1
    /\ UNCHANGED ctorDocumented

Next ==
    \/ InitAngmom
    \/ InitCoord
    \/ InitCoeffs
    \/ InitExps
    \/ InitNorm
    \/ SetAngmom
    \/ SetCoord
    \/ SetCoeffs
    \/ SetExps
    \/ CallAssignNormCont

Spec == Init /\ [][Next]_vars

\* ------------------------------------- a basis and the caller that built it

ShellIdle ==
    /\ pc = "off"
    /\ shell = NoShell
    /\ last = NoOp
    /\ overlapCalls = 0
    /\ ops = 0
    /\ ctorDocumented = FALSE

InitB ==
    /\ ShellIdle
    /\ FuncIdle
    /\ mem = InitMem
    /\ bpc = "call"
    /\ margs \in [atoms : AtomsInputs, coords : ArrayInputs]
    /\ basis = <<>>
    /\ blast = NoStmt
    /\ bops = 0
    /\ ctorCalls = 0

\* the center shell k of the basis shows: the elements of its coord
Center(m, b, k) == Data(m, b[k].coord)

\* basis = make_contractions(basis_dict, atoms, coords)
CallMakeContractions ==
    /\ bpc = "call"
    /\ \E eng \in EngineChoices :
         LET r == MakeContractions(mem, margs.atoms, margs.coords, eng)
         IN /\ basis' = r.basis
            /\ mem' = r.mem
            /\ bpc' = IF r.exc = "none" THEN "returned" ELSE "raised"
            /\ blast' = [op |-> "make_contractions", who |-> 0, exc |-> r.exc]
            /\ ctorCalls' = r.made
    /\ UNCHANGED <<margs, bops, svars, fvars>>

\* coords[i, j] = v, by the caller, on the array it passed
WriteCoords ==
    /\ bpc = "returned" /\ bops < MaxBasisOps
    /\ \E x \in 1 .. Size(margs.coords), v \in 0 .. MaxVal :
         mem' = [mem EXCEPT ![margs.coords.buf][margs.coords.off + x] = v]
    /\ blast' = [op |-> "write_coords", who |-> 0, exc |-> "none"]
    /\ bops' = bops + 1
    /\ UNCHANGED <<bpc, margs, basis, ctorCalls, svars, fvars>>

\* a[j] = v for a number v: every element of the j-th item of a along its
\* first axis is v
SetItem(m, a, j, v) ==
    LET len == Size(a) \div a.shape[1]
    IN [m EXCEPT ![a.buf] =
           [i \in DOMAIN m[a.buf] |->
               IF a.off + j * len < i /\ i <= a.off + (j + 1) * len
               THEN v ELSE m[a.buf][i]]]

\* basis[k].coord[j] = v: the stored center of shell k is changed in place,
\* or IndexError when its first axis has no index j
WriteShellCoord ==
    /\ bpc = "returned" /\ bops < MaxBasisOps
    /\ \E k \in 1 .. Len(basis), j \in 0 .. 2, v \in 0 .. MaxVal :
         LET a == basis[k].coord
         IN IF j >= a.shape[1]
            THEN /\ mem' = mem
                 /\ blast' = [op |-> "write_shell_coord", who |-> k, exc |-> "IndexError"]
            ELSE /\ mem' = SetItem(mem, a, j, v)
                 /\ blast' = [op |-> "write_shell_coord", who |-> k, exc |-> "none"]
    /\ bops' = bops + 1
    /\ UNCHANGED <<bpc, margs, basis, ctorCalls, svars, fvars>>

\* basis[k].coord = a: shell k is given another center
SetShellCoord ==
    /\ bpc = "returned" /\ bops < MaxBasisOps
    /\ \E k \in 1 .. Len(basis), a \in ArrayInputs :
         LET r == CoordSetter(basis[k], mem, a, OwnBuf(k))
         IN /\ basis' = [basis EXCEPT ![k] = r.self]
            /\ mem' = r.mem
            /\ blast' = [op |-> "set_shell_coord", who |-> k, exc |-> r.exc]
    /\ bops' = bops + 1
    /\ UNCHANGED <<bpc, margs, ctorCalls, svars, fvars>>

NextB ==
    \/ CallMakeContractions
    \/ WriteCoords
    \/ WriteShellCoord
    \/ SetShellCoord

SpecB == InitB /\ [][NextB]_vars

\* --------------------------------------------- the overlap and its callers

\* Longest basis given to a function of the integrals.
MaxBasisLen == 2

Str(v) == [tag |-> "str", val |-> v]
\* coord_type == "cartesian", on any Python value
IsStr(x, v) == x.tag = "str" /\ x.val = v
PyList(items) == [tag |-> "list", items |-> items]
PyTuple(items) == [tag |-> "tuple", items |-> items]
\* isinstance(x, (list, tuple))
IsListOrTuple(x) == x.tag \in {"list", "tuple"}

\* an array given by value: its data are not changed by the functions below
Arr(dtype, shape, data) == [tag |-> "ndarray", dtype |-> dtype, shape |-> shape, data |-> data]
None == [tag |-> "None", dtype |-> "", shape |-> <<>>, data |-> <<>>]

Min(a, b) == IF a <= b THEN a ELSE b

\* sum(cont.num_cart * cont.num_seg_cont for cont in basis), over the first n
RECURSIVE SumCart(_, _)
SumCart(bas, n) ==
    IF n = 0 THEN 0
    ELSE SumCart(bas, n - 1) + NumCart(bas[n]) * NumSegCont(bas[n])

\* sum(cont.num_sph * cont.num_seg_cont for cont in basis), over the first n
RECURSIVE SumSph(_, _)
SumSph(bas, n) ==
    IF n = 0 THEN 0
    ELSE SumSph(bas, n - 1) + NumSph(bas[n]) * NumSegCont(bas[n])

\* sum(num_sph * num_seg_cont if j == "spherical" else num_cart * num_seg_cont
\*     for cont, j in zip(basis, coord_type)), over the first n pairs
RECURSIVE SumZip(_, _, _)
SumZip(bas, items, n) ==
    IF n = 0 THEN 0
    ELSE SumZip(bas, items, n - 1) +
         (IF IsStr(items[n], "spherical")
          THEN NumSph(bas[n]) * NumSegCont(bas[n])
          ELSE NumCart(bas[n]) * NumSegCont(bas[n]))

\* The array construction layer (BaseTwoIndexSymmetric), as specified: the
\* arrays have one row and column per contraction in the coordinate system
\* asked for; a per-shell coordinate type that is not a list/tuple of
\* "cartesian"/"spherical" with one entry per shell, and a transform whose
\* number of columns is not the size of the basis, are rejected before any
\* block is computed, with an exception of the class `lib`.
LibChoices == {"TypeError", "ValueError"}

IsCoordTypeName(x) == IsStr(x, "cartesian") \/ IsStr(x, "spherical")
IsCoordTypes(bas, ct) ==
    /\ IsListOrTuple(ct)
    /\ \A i \in 1 .. Len(ct.items) : IsCoordTypeName(ct.items[i])
    /\ Len(ct.items) = Len(bas)

Rejected(method, e) == [exc |-> e, method |-> method, shape |-> <<>>]
Array(method, shape) == [exc |-> "none", method |-> method, shape |-> shape]

ConstructArrayCartesian(bas) ==
    LET k == SumCart(bas, Len(bas))
    IN Array("construct_array_cartesian", <<k, k>>)

ConstructArraySpherical(bas) ==
    LET k == SumSph(bas, Len(bas))
    IN Array("construct_array_spherical", <<k, k>>)

ConstructArrayMix(bas, ct, lib) ==
    IF ~IsCoordTypes(bas, ct) THEN Rejected("construct_array_mix", lib)
    ELSE LET k == SumZip(bas, ct.items, Len(bas))
         IN Array("construct_array_mix", <<k, k>>)

\* the size of the basis in the coordinate type, -1 for none
SizeIn(bas, ct) ==
    IF IsStr(ct, "cartesian") THEN SumCart(bas, Len(bas))
    ELSE IF IsStr(ct, "spherical") THEN SumSph(bas, Len(bas))
    ELSE IF IsCoordTypes(bas, ct) THEN SumZip(bas, ct.items, Len(bas))
    ELSE -1

IsTransformOf(bas, transform, ct) ==
    /\ SizeIn(bas, ct) # -1
    /\ IsNdarray(transform) /\ Ndim(transform) = 2
    /\ transform.shape[2] = SizeIn(bas, ct)

ConstructArrayLincomb(bas, transform, ct, lib) ==
    IF ~IsTransformOf(bas, transform, ct) THEN Rejected("construct_array_lincomb", lib)
    ELSE Array("construct_array_lincomb", <<transform.shape[1], transform.shape[1]>>)

\* the functions of gbasis.overlap
OverlapCartesian(bas) == ConstructArrayCartesian(bas)
OverlapSpherical(bas) == ConstructArraySpherical(bas)
OverlapMix(bas, coord_types, lib) == ConstructArrayMix(bas, coord_types, lib)
OverlapLincomb(bas, transform, coord_type, lib) ==
    ConstructArrayLincomb(bas, transform, coord_type, lib)

\* mutant: the coordinate type is looked at before the transformation
OverlapIntegralTransformLast(bas, transform, coord_type, lib) ==
    IF IsStr(coord_type, "cartesian") THEN ConstructArrayCartesian(bas)
    ELSE IF IsStr(coord_type, "spherical") THEN ConstructArraySpherical(bas)
    ELSE IF transform.tag # "None"
    THEN ConstructArrayLincomb(bas, transform, coord_type, lib)
    ELSE ConstructArrayMix(bas, coord_type, lib)

\* mutant: every coordinate type but "cartesian" is taken for "spherical"
OverlapIntegralDefaultSpherical(bas, transform, coord_type, lib) ==
    IF transform.tag # "None"
    THEN ConstructArrayLincomb(bas, transform, coord_type, lib)
    ELSE IF IsStr(coord_type, "cartesian") THEN ConstructArrayCartesian(bas)
    ELSE ConstructArraySpherical(bas)

OverlapIntegral(bas, transform, coord_type, lib) ==
    IF transform.tag # "None"
    THEN ConstructArrayLincomb(bas, transform, coord_type, lib)
    ELSE IF IsStr(coord_type, "cartesian") THEN ConstructArrayCartesian(bas)
    ELSE IF IsStr(coord_type, "spherical") THEN ConstructArraySpherical(bas)
    ELSE ConstructArrayMix(bas, coord_type, lib)

\* the shell GeneralizedContractionShell(l, center, coeffs, exps) of two
\* exponents, centered at (1, 2, 3)
ShellOf(l, coeffs) ==
    Construct(InitMem, PyInt(l), Value(1), coeffs, Value(5), OwnBuf(1), "ok").self

\* shells of one and of two segmented contractions
SampleShells == {ShellOf(l, c) : l \in 0 .. MaxAngmom, c \in {Value(5), Value(7)}}
\* an object with the attributes of a shell that is no GeneralizedContractionShell
LookAlike(sh) == [sh EXCEPT !.class = "SimpleNamespace"]

ContractionCalls ==
    [fn : {"construct_array_contraction"},
     one : SampleShells \cup {LookAlike(sh) : sh \in SampleShells},
     two : SampleShells \cup {LookAlike(sh) : sh \in SampleShells}]

\* bases of up to MaxBasisLen shells: an s shell of two segmented contractions
\* and a shell of the largest angular momentum
BasisInputs ==
    {b \in SeqsUpTo({ShellOf(0, Value(7)), ShellOf(MaxAngmom, Value(5))}, MaxBasisLen) :
        b # <<>>}

CoordTypeEntries == {Str("cartesian"), Str("spherical"), Str("polar")}
CoordTypeInputs ==
    CoordTypeEntries \cup {PyInt(0)}
    \cup {PyList(q) : q \in SeqsUpTo(CoordTypeEntries, MaxBasisLen)}
    \cup {PyTuple(<<Str("cartesian")>>), PyTuple(<<Str("polar")>>), PyList(<<PyInt(0)>>)}

\* the sizes a basis given can have in some coordinate type
BasisSizes ==
    UNION {{SumCart(b, Len(b)), SumSph(b, Len(b))} \cup
           {SumZip(b, q, Len(b)) :
               q \in {t \in SeqsUpTo(CoordTypeEntries, MaxBasisLen) : Len(t) = Len(b)}} :
           b \in BasisInputs}

\* transform, of shape (K_orbs, K_cont): only its shape is used
TransformInputs ==
    {None} \cup {Arr("float64", <<k \div 2 + 1, k>>, <<>>) : k \in BasisSizes}
    \cup {Arr("float64", <<1>>, <<>>)}

OverlapIntegralCalls ==
    [fn : {"overlap_integral"}, basis : BasisInputs,
     transform : TransformInputs, coord_type : CoordTypeInputs]

\* Overlap.construct_array_contraction(one, two)
CallConstructArrayContraction ==
    /\ fpc = "call" /\ fargs.fn = "construct_array_contraction"
    /\ \E eng \in EngineChoices :
           fres' = ConstructArrayContraction(fargs.one, fargs.two, eng)
    /\ fpc' = "done"
    /\ UNCHANGED <<fargs, mem, svars, bvars>>

\* overlap_integral(basis, transform=transform, coord_type=coord_type)
CallOverlapIntegral ==
    /\ fpc = "call" /\ fargs.fn = "overlap_integral"
    /\ \E lib \in LibChoices :
           fres' = OverlapIntegral(fargs.basis, fargs.transform, fargs.coord_type, lib)
    /\ fpc' = "done"
    /\ UNCHANGED <<fargs, mem, svars, bvars>>

\* ----------------------------------------------- electrostatic_potential

\* element (i, j) of a two-dimensional array given by value
At(a, i, j) == a.data[(i - 1) * a.shape[2] + j]

\* np.allclose(a, a.T) for a square matrix: |a[i,j] - a[j,i]| <= 1e-8 +
\* 1e-5 * |a[j,i]|, which for the integral values of the model is equality
AllCloseTranspose(a) ==
    \A i \in 1 .. a.shape[1], j \in 1 .. a.shape[2] : At(a, i, j) = At(a, j, i)

\* gbasis.point_charge.point_charge_integral, as specified: a tensor of shape
\* (basisSize, basisSize, numPoints), or (K_orbs, K_orbs, numPoints) under a
\* transform of shape (K_orbs, basisSize); an unrecognized coordinate type and
\* a transform that does not fit the basis are rejected before any integral
\* is computed, with an exception of the class `lib`.
PointChargeIntegral(bas, numPoints, transform, ct, lib) ==
    IF transform.tag # "None"
    THEN IF ~IsTransformOf(bas, transform, ct)
         THEN Rejected("point_charge_integral", lib)
         ELSE Array("point_charge_integral",
                    <<transform.shape[1], transform.shape[1], numPoints>>)
    ELSE IF SizeIn(bas, ct) = -1
         THEN Rejected("point_charge_integral", lib)
         ELSE Array("point_charge_integral", <<SizeIn(bas, ct), SizeIn(bas, ct), numPoints>>)

\* the square of the distance of point p from nucleus n:
\* np.sum((coords_points[:, :, None] - nuclear_coords.T[None, :, :]) ** 2, axis=1)
DistSq(points, nuclei, p, n) ==
    LET d(c) == At(points, p, c) - At(nuclei, n, c)
    IN d(1) * d(1) + d(2) * d(2) + d(3) * d(3)

\* floating point numbers of the external potential: z / sqrt(ss) for ss > 0,
\* and what a division by zero gives when its warning is ignored
Inf == [kind |-> "inf", num |-> 1, densq |-> 0]
NegInf == [kind |-> "-inf", num |-> -1, densq |-> 0]
NaN == [kind |-> "nan", num |-> 0, densq |-> 0]
Zero == [kind |-> "quot", num |-> 0, densq |-> 1]
Quotient(z, ss) ==
    IF ss # 0 THEN [kind |-> "quot", num |-> z, densq |-> ss]
    ELSE IF z > 0 THEN Inf
    ELSE IF z < 0 THEN NegInf
    ELSE NaN

\* mutant: 1.0 / 0 is taken to be 0
ExceedsInverseOfZero(v, t) ==
    IF t = 0 THEN v.kind = "inf" \/ (v.kind = "quot" /\ v.num > 0)
    ELSE \/ v.kind = "inf"
         \/ v.kind = "quot" /\ v.num > 0 /\ v.num * v.num * t * t > v.densq

\* v > 1.0 / np.array(t), for t >= 0: 1.0 / 0 is inf, which nothing exceeds;
\* z / sqrt(ss) > 1 / t is z * t > sqrt(ss); nan compares False
ExceedsInverse(v, t) ==
    IF t = 0 THEN FALSE
    ELSE \/ v.kind = "inf"
         \/ v.kind = "quot" /\ v.num > 0 /\ v.num * v.num * t * t > v.densq

\* what electrostatic_potential raises itself, before point_charge_integral
Invalid(e) ==
    [exc |-> e, by |-> "electrostatic_potential", pci |-> 0, allclose |-> 0,
     silenced |-> 0, restored |-> 0,
     mask |-> <<>>, external |-> <<>>, shape |-> <<>>]

\* mutant: the density matrix is compared with the Cartesian size whatever
\* the coordinate type is
ExpectedRowsCartesian(bas, ct) ==
    IF IsStr(ct, "cartesian") \/ IsStr(ct, "spherical") \/ IsListOrTuple(ct)
    THEN SumCart(bas, Len(bas))
    ELSE -1

\* the sum the density matrix is compared with, -1 when coord_type is none
\* of the three kinds the function knows
ExpectedRows(bas, ct) ==
    IF IsStr(ct, "cartesian") THEN SumCart(bas, Len(bas))
    ELSE IF IsStr(ct, "spherical") THEN SumSph(bas, Len(bas))
    ELSE IF IsListOrTuple(ct) THEN SumZip(bas, ct.items, Min(Len(bas), Len(ct.items)))
    ELSE -1

\* isinstance(threshold_dist, (int, float)): bool is an int, numpy.int64 is not
IsIntOrFloat(v) == v.tag \in {"int", "bool", "float"}

\* the process-wide floating point error settings of numpy, np.geterr():
\* what is done on a division by zero and on an invalid operation
DefaultErr == [divide |-> "warn", invalid |-> "warn"]

\* nuclear_charges[None, :] / (...) ** 0.5 has no loop for an array that
\* holds no numbers
IsNumeric(a) == a.dtype \in {"float64", "int64"}

\* a result of electrostatic_potential that is an exception raised after
\* its checks: raised by point_charge_integral or by numpy
RaisedBy(who, e, closeCalls, silenced) ==
    [exc |-> e, by |-> who, pci |-> 1, allclose |-> closeCalls,
     silenced |-> silenced, restored |-> 0,
     mask |-> <<>>, external |-> <<>>, shape |-> <<>>]

\* the part of electrostatic_potential after its checks
PotentialOf(bas, dm, points, nuclei, charges, transform, ct, threshold, closeCalls, lib, err) ==
    LET numPoints == points.shape[1]
        h == PointChargeIntegral(bas, numPoints, transform, ct, lib)
        v(p, n) == Quotient(charges.data[n], DistSq(points, nuclei, p, n))
        mask == [p \in 1 .. numPoints |->
                    [n \in 1 .. nuclei.shape[1] |-> ExceedsInverse(v(p, n), threshold.val)]]
    IN IF h.exc # "none"
       THEN RaisedBy("point_charge_integral", h.exc, closeCalls, 0)
       \* hartree_potential *= one_density_matrix[:, :, None], in place
       ELSE IF dm.shape[1] # h.shape[1] /\ dm.shape[1] # 1
       THEN RaisedBy("numpy", "ValueError", closeCalls, 0)
       \* old_settings = np.seterr(divide="ignore"), then the division
       ELSE IF ~IsNumeric(charges)
       THEN RaisedBy("numpy", "TypeError", closeCalls, 1)
       ELSE IF err.invalid = "raise"
               /\ \E p \in 1 .. numPoints, n \in 1 .. nuclei.shape[1] : v(p, n) = NaN
       THEN RaisedBy("numpy", "FloatingPointError", closeCalls, 1)
       \* the comparison, np.seterr(**old_settings), the sums and the return
       ELSE [exc |-> "none", by |-> "", pci |-> 1, allclose |-> closeCalls,
             silenced |-> 1, restored |-> 1,
             mask |-> mask,
             external |-> [p \in 1 .. numPoints |->
                              [n \in 1 .. nuclei.shape[1] |->
                                  IF mask[p][n] THEN Zero ELSE v(p, n)]],
             shape |-> <<numPoints>>]

\* mutant: the transpose is compared before the matrix is known to be square
ElectrostaticPotentialCloseFirst(bas, dm, points, nuclei, charges, transform, ct, threshold, lib, err) ==
    IF ~(IsNdarray(dm) /\ Ndim(dm) = 2) THEN Invalid("TypeError")
    ELSE IF ~(IsNdarray(nuclei) /\ Ndim(nuclei) = 2 /\ nuclei.shape[2] = 3)
    THEN Invalid("TypeError")
    ELSE IF ~(IsNdarray(charges) /\ Ndim(charges) = 1) THEN Invalid("TypeError")
    ELSE IF dm.shape[1] # dm.shape[2] \/ ~AllCloseTranspose(dm)
    THEN [Invalid("ValueError") EXCEPT !.allclose = 1]
    ELSE IF nuclei.shape[1] # Size(charges)
    THEN [Invalid("ValueError") EXCEPT !.allclose = 1]
    ELSE IF ~IsIntOrFloat(threshold) THEN [Invalid("TypeError") EXCEPT !.allclose = 1]
    ELSE IF threshold.val < 0 THEN [Invalid("ValueError") EXCEPT !.allclose = 1]
    ELSE IF ExpectedRows(bas, ct) = -1 THEN [Invalid("TypeError") EXCEPT !.allclose = 1]
    ELSE IF ExpectedRows(bas, ct) # dm.shape[1]
    THEN [Invalid("ValueError") EXCEPT !.allclose = 1]
    ELSE PotentialOf(bas, dm, points, nuclei, charges, transform, ct, threshold, 1, lib, err)

ElectrostaticPotential(bas, dm, points, nuclei, charges, transform, ct, threshold, lib, err) ==
    IF ~(IsNdarray(dm) /\ Ndim(dm) = 2) THEN Invalid("TypeError")
    ELSE IF ~(IsNdarray(nuclei) /\ Ndim(nuclei) = 2 /\ nuclei.shape[2] = 3)
    THEN Invalid("TypeError")
    ELSE IF ~(IsNdarray(charges) /\ Ndim(charges) = 1) THEN Invalid("TypeError")
    ELSE IF dm.shape[1] # dm.shape[2] THEN Invalid("ValueError")
    ELSE IF ~AllCloseTranspose(dm) THEN [Invalid("ValueError") EXCEPT !.allclose = 1]
    ELSE IF nuclei.shape[1] # Size(charges)
    THEN [Invalid("ValueError") EXCEPT !.allclose = 1]
    ELSE IF ~IsIntOrFloat(threshold) THEN [Invalid("TypeError") EXCEPT !.allclose = 1]
    ELSE IF threshold.val < 0 THEN [Invalid("ValueError") EXCEPT !.allclose = 1]
    ELSE IF ExpectedRows(bas, ct) = -1 THEN [Invalid("TypeError") EXCEPT !.allclose = 1]
    ELSE IF ExpectedRows(bas, ct) # dm.shape[1]
    THEN [Invalid("ValueError") EXCEPT !.allclose = 1]
    ELSE PotentialOf(bas, dm, points, nuclei, charges, transform, ct, threshold, 1, lib, err)

\* Largest coordinate of a point where the potential is evaluated.
MaxDist == 3
\* Largest nuclear charge.
MaxCharge == 2
\* Largest threshold_dist.
MaxThreshold == 2

\* the n x n identity matrix
Eye(n) ==
    Arr("float64", <<n, n>>, [i \in 1 .. n * n |-> IF (i - 1) \div n = (i - 1) % n THEN 1 ELSE 0])

\* density matrices for a basis: the identity of every size the basis has in
\* some coordinate type, of the sizes of the transforms and of size 1; a
\* symmetric and an asymmetric 2 x 2 matrix, a 2 x 3 matrix, a vector, a list
DmInputs(bas) ==
    {Eye(n) : n \in {SumCart(bas, Len(bas)), SumSph(bas, Len(bas)),
                     SumCart(bas, 1), SumSph(bas, 1), 1, 3}}
    \cup {Eye(SumZip(bas, q, Len(bas))) :
            q \in {t \in SeqsUpTo(CoordTypeEntries, MaxBasisLen) : Len(t) = Len(bas)}}
    \cup {Arr("float64", <<2, 2>>, <<1, 2, 2, 1>>),
          Arr("float64", <<2, 2>>, <<1, 2, 0, 1>>),
          Arr("float64", <<2, 3>>, <<1, 0, 0, 0, 1, 0>>),
          Arr("float64", <<2>>, <<1, 1>>),
          [tag |-> "list", dtype |-> "", shape |-> <<>>, data |-> <<>>]}

\* transforms for a basis: none, and 3 orbitals of as many contractions as
\* the basis has in some coordinate type, or of one more
TransformsFor(bas) ==
    {None}
    \cup {Arr("float64", <<3, k>>, <<>>) :
            k \in {SumCart(bas, Len(bas)), SumSph(bas, Len(bas)),
                   SumCart(bas, Len(bas)) + 1}}
    \cup {Arr("float64", <<k, k>>, <<>>) : k \in {SumSph(bas, Len(bas))}}

\* one point on the x axis, or two
PointsInputs ==
    {Arr("float64", <<1, 3>>, <<x, 0, 0>>) : x \in 0 .. MaxDist}
    \cup {Arr("float64", <<2, 3>>, <<0, 0, 0, MaxDist, 0, 0>>)}

\* a nucleus at the origin, and a second one at (1, 1, 0)
OneNucleus == Arr("float64", <<1, 3>>, <<0, 0, 0>>)
TwoNuclei == Arr("float64", <<2, 3>>, <<0, 0, 0, 1, 1, 0>>)
NucleiInputs ==
    {OneNucleus, TwoNuclei,
     Arr("float64", <<3>>, <<0, 0, 0>>),
     Arr("float64", <<1, 2>>, <<0, 0>>),
     [tag |-> "list", dtype |-> "", shape |-> <<>>, data |-> <<>>]}

ChargesInputs ==
    {Arr("float64", <<1>>, <<z>>) : z \in -1 .. MaxCharge}
    \cup {Arr("float64", <<2>>, <<z, 1>>) : z \in -1 .. MaxCharge}
    \cup {Arr("float64", <<1, 1>>, <<1>>),
          [tag |-> "list", dtype |-> "", shape |-> <<>>, data |-> <<>>]}

ThresholdInputs ==
    {PyFloat(t) : t \in -1 .. MaxThreshold}
    \cup {PyInt(0), PyInt(1), PyInt(-1), PyBool(1), NpInt(1), PyStr}

\* the arguments of the default call on an s shell of two contractions
PlainCall ==
    [fn |-> "electrostatic_potential",
     basis |-> <<ShellOf(0, Value(7))>>, dm |-> Eye(2),
     points |-> Arr("float64", <<1, 3>>, <<1, 0, 0>>),
     nuclei |-> OneNucleus, charges |-> Arr("float64", <<1>>, <<1>>),
     transform |-> None, coord_type |-> Str("spherical"), threshold |-> PyFloat(0),
     seterr |-> DefaultErr]

\* calls that differ in the basis, the density matrix, the transform and the
\* coordinate type
SizeCalls ==
    UNION {[fn : {"electrostatic_potential"}, basis : {b}, dm : DmInputs(b),
            points : {PlainCall.points}, nuclei : {OneNucleus},
            charges : {PlainCall.charges}, transform : TransformsFor(b),
            coord_type : CoordTypeInputs, threshold : {PyFloat(0)},
            seterr : {DefaultErr}] : b \in BasisInputs}

\* calls that differ in the nuclei, their charges and the threshold, with a
\* density matrix and a coordinate type that are valid or not
NuclearCalls ==
    [fn : {"electrostatic_potential"}, basis : {PlainCall.basis},
     dm : {Eye(2), Eye(3), Arr("float64", <<2, 2>>, <<1, 2, 0, 1>>),
           Arr("float64", <<2>>, <<1, 1>>)},
     points : PointsInputs, nuclei : NucleiInputs, charges : ChargesInputs,
     transform : {None}, coord_type : {Str("spherical"), Str("polar")},
     threshold : ThresholdInputs, seterr : {DefaultErr}]

\* the settings a caller may have made with np.seterr before the call
SeterrInputs == [divide : {"warn", "raise"}, invalid : {"warn", "raise"}]

\* calls that differ in the settings in force and in the charges, which are
\* numbers, zero included, or strings; the point is on the nucleus or not
SeterrCalls ==
    [fn : {"electrostatic_potential"}, basis : {PlainCall.basis},
     dm : {Eye(2), Eye(3)},
     points : PointsInputs, nuclei : {OneNucleus},
     charges : {Arr("float64", <<1>>, <<z>>) : z \in 0 .. 1}
               \cup {Arr("<U1", <<1>>, <<0>>), Arr("<U1", <<2>>, <<0, 0>>)},
     transform : {None}, coord_type : {Str("spherical")},
     threshold : {PyFloat(0), PyFloat(1), PyFloat(-1)}, seterr : SeterrInputs]

\* electrostatic_potential(basis, one_density_matrix, coords_points,
\*     nuclear_coords, nuclear_charges, transform, coord_type, threshold_dist)
CallElectrostaticPotential ==
    /\ fpc = "call" /\ fargs.fn = "electrostatic_potential"
    /\ \E lib \in LibChoices :
           fres' = ElectrostaticPotential(fargs.basis, fargs.dm, fargs.points,
                                          fargs.nuclei, fargs.charges, fargs.transform,
                                          fargs.coord_type, fargs.threshold, lib,
                                          fargs.seterr)
    /\ fpc' = "done"
    /\ UNCHANGED <<fargs, mem, svars, bvars>>

\* ----------------------------------------------------------- gbasis.deriv

\* The floating point numbers of the evaluation are modelled exactly: a
\* rational is <<numerator, denominator>> in lowest terms, denominator > 0.
Abs(n) == IF n < 0 THEN -n ELSE n
RECURSIVE Gcd(_, _)
Gcd(m, n) == IF n = 0 THEN m ELSE Gcd(n, m % n)
Rat(n, d) ==
    LET g == Gcd(Abs(n), Abs(d))
        sgn == IF d < 0 THEN -1 ELSE 1
    IN <<sgn * (n \div g), sgn * (d \div g)>>
RatPlus(p, q) ==
    LET g == Gcd(p[2], q[2])
    IN Rat(p[1] * (q[2] \div g) + q[1] * (p[2] \div g), (p[2] \div g) * q[2])
RatTimes(p, q) ==
    LET g == Gcd(Abs(p[1]), q[2])
        h == Gcd(Abs(q[1]), p[2])
    IN Rat((p[1] \div g) * (q[1] \div h), (p[2] \div h) * (q[2] \div g))
RatMinus(p, q) == RatPlus(p, <<-q[1], q[2]>>)
RatInverse(p) == Rat(p[2], p[1])

RECURSIVE Pow(_, _)
\* x ** n: 0 ** 0 is 1, and a negative n gives the power of the inverse
Pow(x, n) ==
    IF n = 0 THEN <<1, 1>>
    ELSE IF n < 0 THEN Pow(RatInverse(x), -n)
    ELSE RatTimes(x, Pow(x, n - 1))

\* the elements of an array of numbers, as rationals
Elements(a) ==
    IF a.dtype = "int64" THEN [i \in DOMAIN a.data |-> <<a.data[i], 1>>] ELSE a.data

\* A real number that is a sum of rational multiples of exp(-e), for
\* rationals e: the function from the e of its terms to their factors, none
\* of them 0.  The exp(-e) are linearly independent over the rationals, so
\* two sums are the same number exactly when they are the same function.
Gauss(c, e) == [x \in {y \in {e} : c[1] # 0} |-> c]
FactorOf(u, e) == IF e \in DOMAIN u THEN u[e] ELSE <<0, 1>>
Plus(u, v) ==
    [e \in {x \in DOMAIN u \cup DOMAIN v : RatPlus(FactorOf(u, x), FactorOf(v, x))[1] # 0} |->
        RatPlus(FactorOf(u, e), FactorOf(v, e))]
Times(k, u) == [e \in {x \in DOMAIN u : k[1] # 0} |-> RatTimes(k, u[e])]
NoTerms == Gauss(<<0, 1>>, <<0, 1>>)

RECURSIVE DerivFactor(_, _, _, _)
\* the factor P of the k-th derivative of x^n exp(-a x^2), P exp(-a x^2):
\* the derivative of x^n exp(-a x^2) is n x^(n-1) exp(-a x^2) - 2 a x^(n+1) exp(-a x^2)
DerivFactor(k, n, a, x) ==
    IF k = 0 THEN Pow(x, n)
    ELSE RatMinus(IF n = 0 THEN <<0, 1>>
                  ELSE RatTimes(<<n, 1>>, DerivFactor(k - 1, n - 1, a, x)),
                  RatTimes(RatTimes(<<2, 1>>, a), DerivFactor(k - 1, n + 1, a, x)))

\* eval_deriv_prim(coord, orders, center, angmom_comps, alpha): the
\* derivative of the primitive, a product of one factor per axis; coord and
\* center are sequences of rationals, orders and angmom_comps of integers,
\* alpha is a rational
EvalDerivPrim(coord, orders, center, angmom_comps, alpha) ==
    LET d(i) == RatMinus(coord[i], center[i])
        f(i) == DerivFactor(orders[i], angmom_comps[i], alpha, d(i))
        sq(i) == RatTimes(d(i), d(i))
    IN Gauss(RatTimes(f(1), RatTimes(f(2), f(3))),
             RatTimes(alpha, RatPlus(sq(1), RatPlus(sq(2), sq(3)))))

\* the exponents or the coefficients, given as a number or as an array: a
\* number is an array of one
AtLeast1d(x) == IF x.tag = "ndarray" THEN Elements(x) ELSE << <<x.val, 1>> >>

\* the rows of angmom_comps: a vector is a matrix of one row
CompRows(angmom_comps) ==
    IF Ndim(angmom_comps) = 1 THEN <<angmom_comps.data>>
    ELSE [r \in 1 .. angmom_comps.shape[1] |->
             [i \in 1 .. 3 |-> angmom_comps.data[3 * (r - 1) + i]]]

RECURSIVE SumPrims(_, _, _, _, _, _, _)
\* the sum over the first k primitives of the coefficient times the
\* derivative of the primitive
SumPrims(coord, orders, center, row, alphas, prim_coeffs, k) ==
    IF k = 0 THEN NoTerms
    ELSE Plus(SumPrims(coord, orders, center, row, alphas, prim_coeffs, k - 1),
              Times(prim_coeffs[k], EvalDerivPrim(coord, orders, center, row, alphas[k])))

\* eval_deriv_contraction(coord, orders, center, angmom_comps, alphas,
\* prim_coeffs): one number for a vector of components, one per row for a
\* matrix of them
EvalDerivContraction(coord, orders, center, angmom_comps, alphas, prim_coeffs) ==
    LET rows == CompRows(angmom_comps)
        a == AtLeast1d(alphas)
        c == AtLeast1d(prim_coeffs)
    IN [exc |-> "none",
        shape |-> IF Ndim(angmom_comps) = 1 THEN <<>> ELSE <<Len(rows)>>,
        vals |-> [r \in 1 .. Len(rows) |->
                     SumPrims(Elements(coord), orders.data, Elements(center), rows[r],
                              a, c, Len(a))]]

\* range(3) of the first order loop and range(4) of the second order loop
FirstOrderRange == 3
SecondOrderRange == 4

\* orders = np.zeros(3, dtype=int) with orders[k] = 1, and with
\* orders[k] += 1 and orders[l] += 1
UnitOrders(k) == [i \in 1 .. 3 |-> IF i = k THEN 1 ELSE 0]
FirstOrders == {Arr("int64", <<3>>, UnitOrders(k)) : k \in 1 .. 3}
SecondOrders ==
    {Arr("int64", <<3>>, [i \in 1 .. 3 |-> UnitOrders(k)[i] + UnitOrders(l)[i]]) :
        k \in 1 .. 3, l \in 1 .. 3}

\* np.array([x, y, z]) and np.array([[x, y, z], [x - 1, y + 2, z + 1]])
CompVector(v) == Arr("int64", <<3>>, v)
CompMatrix(v) == Arr("int64", <<2, 3>>, v \o <<v[1] - 1, v[2] + 2, v[3] + 1>>)

\* the point np.array([2, 3, 4]) and the center np.array([0.5, 1, 1.5])
TestCoord == Arr("int64", <<3>>, <<2, 3, 4>>)
TestCenter == Arr("float64", <<3>>, <<Rat(1, 2), Rat(1, 1), Rat(3, 2)>>)
\* the exponents and coefficients 1, 1 and np.array([1, 2]), np.array([3, 4])
OnePrim == [alphas |-> PyInt(1), prim_coeffs |-> PyInt(1)]
TwoPrims == [alphas |-> Arr("int64", <<2>>, <<1, 2>>),
             prim_coeffs |-> Arr("int64", <<2>>, <<3, 4>>)]

\* the calls of test_eval_deriv_contraction
DerivCalls ==
    [fn : {"eval_deriv_contraction"}, coord : {TestCoord}, orders : FirstOrders,
     center : {TestCenter},
     angmom_comps : {CompVector(v) : v \in [1 .. 3 -> 0 .. FirstOrderRange - 1]}
                    \cup {CompMatrix(v) : v \in [1 .. 3 -> 0 .. FirstOrderRange - 1]},
     prims : {TwoPrims}]
    \cup
    [fn : {"eval_deriv_contraction"}, coord : {TestCoord}, orders : SecondOrders,
     center : {TestCenter},
     angmom_comps : {CompVector(v) : v \in [1 .. 3 -> 0 .. SecondOrderRange - 1]},
     prims : {OnePrim, TwoPrims}]
    \cup
    [fn : {"eval_deriv_contraction"}, coord : {TestCoord}, orders : SecondOrders,
     center : {TestCenter},
     angmom_comps : {CompMatrix(v) : v \in [1 .. 3 -> 0 .. SecondOrderRange - 1]},
     prims : {TwoPrims}]

CallEvalDerivContraction ==
    /\ fpc = "call" /\ fargs.fn = "eval_deriv_contraction"
    /\ fres' = EvalDerivContraction(fargs.coord, fargs.orders, fargs.center,
                                    fargs.angmom_comps, fargs.prims.alphas,
                                    fargs.prims.prim_coeffs)
    /\ fpc' = "done"
    /\ UNCHANGED <<fargs, mem, svars, bvars>>

\* a caller that makes one call of a function of the integrals or of the
\* evaluation of a contraction
InitI ==
    /\ ShellIdle
    /\ BasisIdle
    /\ mem = InitMem
    /\ fpc = "call"
    /\ \/ fargs \in ContractionCalls
       \/ fargs \in OverlapIntegralCalls
       \/ fargs \in SizeCalls
       \/ fargs \in NuclearCalls
       \/ fargs \in SeterrCalls
       \/ fargs \in DerivCalls
    /\ fres = NoResult

NextI ==
    \/ CallConstructArrayContraction
    \/ CallOverlapIntegral
    \/ CallElectrostaticPotential
    \/ CallEvalDerivContraction

SpecI == InitI /\ [][NextI]_vars

\* ------------------------------------------------------------------ claims

Constructed == pc = "ready"
\* the four attributes a shell is constructed from
Attrs(sh) == <<sh.coord, sh.angmom, sh.exps, sh.coeffs>>
SetOk(op) == last.phase = "set" /\ last.op = op /\ last.exc = "none"

\* C1 (as claimed): in every state of a constructed shell, after any
\* successful assignments to coeffs and exps, the number of rows of coeffs
\* equals the number of elements of exps.  Stated for shells constructed from
\* arrays of the documented shapes.
C1_RowsEqualExps ==
    (Constructed /\ ctorDocumented) => shell.coeffs.shape[1] = Size(shell.exps)

\* C2 (as claimed): once __init__ has returned, no statement on the shell
\* changes coord, angmom, exps or coeffs.
C2_Immutable ==
    [][(Constructed /\ ctorDocumented) => Attrs(shell)' = Attrs(shell)]_vars

\* C2 (amended): once __init__ has returned, each of coord, angmom, exps and
\* coeffs changes only by a successful assignment to that attribute;
\* assign_norm_cont and an assignment that raises change none of the four.
C2_ChangedOnlyByOwnSetter ==
    [][Constructed =>
         /\ (shell.coord' # shell.coord =>
                last'.op = "coord" /\ last'.exc = "none")
         /\ (shell.angmom' # shell.angmom =>
                last'.op = "angmom" /\ last'.exc = "none")
         /\ (shell.exps' # shell.exps =>
                last'.op = "exps" /\ last'.exc = "none")
         /\ (shell.coeffs' # shell.coeffs =>
                last'.op = "coeffs" /\ last'.exc = "none")]_vars

\* C2 witness: on a constructed shell an assignment of angmom has succeeded
\* and a later one has raised, leaving the value assigned before.
C2_Witness ==
    /\ Constructed /\ ops = 2 /\ shell.angmom = PyInt(2)
    /\ last.phase = "set" /\ last.op = "angmom" /\ last.exc = "ValueError"

\* C3 (as claimed): in every state of a constructed shell, norm_cont is the
\* M x L array computed from the current angmom and coeffs: M = num_seg_cont
\* rows and L = num_cart columns.
C3_NormContCurrent ==
    (Constructed /\ ctorDocumented) =>
        shell.norm_cont.shape = <<NumSegCont(shell), NumCart(shell)>>

IsNatTriple(t) == Len(t) = 3 /\ \A k \in 1 .. 3 : t[k] \in Nat

\* C4: for every angular momentum l >= 0 a shell holds, angmom_components_cart
\* has (l+1)(l+2)/2 rows (ax, ay, az) of non-negative integers summing to l,
\* with ax non-increasing and, within equal ax, ay strictly decreasing, from
\* (l, 0, 0) to (0, 0, l); the number of rows is num_cart.
C4_CartComponents ==
    HasAttr(shell.angmom) =>
        LET l == shell.angmom.val
            rows == AngmomComponentsCart(shell)
            n == Len(rows)
        IN /\ 2 * n = (l + 1) * (l + 2)
           /\ n = NumCart(shell)
           /\ \A i \in 1 .. n :
                  IsNatTriple(rows[i]) /\ rows[i][1] + rows[i][2] + rows[i][3] = l
           /\ \A i \in 1 .. n - 1 :
                  /\ rows[i][1] >= rows[i + 1][1]
                  /\ rows[i][1] = rows[i + 1][1] => rows[i][2] > rows[i + 1][2]
           /\ rows[1] = <<l, 0, 0>>
           /\ rows[n] = <<0, 0, l>>

C4_Witness == Constructed /\ shell.angmom = PyInt(2)

\* C5: when __init__ is given float coefficients (1-D or 2-D) whose number of
\* rows differs from the number of exponents, it raises ValueError at
\* self.exps = exps, and construct_array_contraction has not been called.
C5_MismatchRaisedEarly ==
    (/\ last.phase = "init" /\ last.op = "exps"
     /\ IsNdarray(last.arr) /\ last.arr.dtype = "float64"
     /\ shell.coeffs.shape[1] # Size(last.arr))
    => (last.exc = "ValueError" /\ pc = "raised" /\ overlapCalls = 0)

\* the coefficients given were one-dimensional, two rows against four exponents
C5_Witness ==
    /\ pc = "raised" /\ last.op = "exps" /\ last.exc = "ValueError"
    /\ Ndim(Value(shell.coeffs.buf)) = 1
    /\ shell.coeffs.shape[1] = 2 /\ Size(last.arr) = 4

\* C6: an angular momentum that is not an int raises TypeError and a negative
\* int raises ValueError, in __init__ too, so the angmom of a constructed
\* shell is an int >= 0.
C6_AngmomValidated ==
    /\ last.op = "angmom" =>
          /\ ~IsInstanceInt(last.ang) => last.exc = "TypeError"
          /\ (IsInstanceInt(last.ang) /\ last.ang.val < 0) => last.exc = "ValueError"
          /\ (last.phase = "init" /\ last.exc # "none") => pc = "raised"
    /\ Constructed => (IsInstanceInt(shell.angmom) /\ shell.angmom.val >= 0)

C6_Witness ==
    pc = "raised" /\ last.op = "angmom" /\ last.ang = PyInt(-1) /\ last.exc = "ValueError"

\* C7 (as claimed): in __init__, a coord that is not a numpy array of shape
\* (3,), or whose dtype is neither int nor float, raises TypeError.
C7_CoordShapeRejected ==
    (/\ last.phase = "init" /\ last.op = "coord"
     /\ \/ ~IsNdarray(last.arr)
        \/ last.arr.shape # <<3>>
        \/ last.arr.dtype \notin {"int64", "float64"})
    => last.exc = "TypeError"

\* C8 (as claimed): every exponent of a shell __init__ has returned is
\* strictly positive.
C8_ExpsPositive ==
    (Constructed /\ ops = 0 /\ WellFormed(shell)) =>
        \A i \in 1 .. Size(shell.exps) : Data(mem, shell.exps)[i] > 0

\* C9: an assignment of coeffs raises TypeError for a value that is not a
\* float numpy array and ValueError for a float array of rank other than 1
\* or 2; one-dimensional coefficients of length K that are accepted are
\* stored as a K x 1 matrix over the same data (num_seg_cont = 1), and a
\* K x M matrix that is accepted is stored as it is (num_seg_cont = M);
\* before exps is set, every float array of rank 1 or 2 is accepted, and on a
\* shell with a one-dimensional exps exactly those with as many rows as there
\* are exponents.
C9_CoeffsStored ==
    last.op = "coeffs" =>
        LET a == last.arr
            isFloatArr == IsNdarray(a) /\ a.dtype = "float64"
        IN /\ ~isFloatArr => last.exc = "TypeError"
           /\ (isFloatArr /\ Ndim(a) \notin {1, 2}) => last.exc = "ValueError"
           /\ (last.exc = "none" /\ Ndim(a) = 1) =>
                  /\ shell.coeffs.shape = <<a.shape[1], 1>>
                  /\ shell.coeffs.buf = a.buf /\ shell.coeffs.off = a.off
                  /\ Data(mem, shell.coeffs) = Data(mem, a)
                  /\ NumSegCont(shell) = 1
           /\ (last.exc = "none" /\ Ndim(a) = 2) =>
                  /\ shell.coeffs = a
                  /\ NumSegCont(shell) = a.shape[2]
           /\ (isFloatArr /\ Ndim(a) \in {1, 2} /\ ~HasAttr(shell.exps)) =>
                  last.exc = "none"
           /\ (isFloatArr /\ Ndim(a) = 1 /\ HasAttr(shell.exps)) =>
                  (last.exc = "none" <=> a.shape = shell.exps.shape)
           /\ (isFloatArr /\ Ndim(a) = 2 /\ HasAttr(shell.exps) /\ Ndim(shell.exps) = 1) =>
                  (last.exc = "none" <=> a.shape[1] = Size(shell.exps))

C9_Witness ==
    /\ SetOk("coeffs") /\ Ndim(last.arr) = 1
    /\ shell.coeffs.shape = <<2, 1>>

\* C10 (as claimed): after make_contractions has returned, a statement that
\* changes the stored center of one shell, or the caller's coords array,
\* leaves the center every other shell shows as it was.
C10_NoSharedCenter ==
    [][bpc = "returned" =>
         \A k \in 1 .. Len(basis) :
             blast'.who # k => Center(mem', basis', k) = Center(mem, basis, k)]_vars

\* what the caller of make_contractions passed
AtomsAreStrings ==
    /\ margs.atoms.tag \in {"list", "tuple"}
    /\ \A i \in 1 .. Len(margs.atoms.items) : margs.atoms.items[i].tag = "str"
CoordsAreRowsOfThree ==
    /\ margs.coords.tag = "ndarray"
    /\ Len(margs.coords.shape) = 2
    /\ margs.coords.shape[2] = 3
MakeContractionsRejected(e) ==
    bpc = "raised" /\ blast.exc = e /\ ctorCalls = 0 /\ basis = <<>> /\ mem = InitMem

\* C11: make_contractions raises TypeError when atoms is not a list/tuple of
\* strings, TypeError when coords is not a two-dimensional array with 3
\* columns, and ValueError when len(atoms) is not the number of rows of coords;
\* a type error is reported whatever the lengths are, and in all three cases
\* no GeneralizedContractionShell has been constructed.
C11_RejectedBeforeShells ==
    bpc \in {"raised", "returned"} =>
        /\ ~AtomsAreStrings => MakeContractionsRejected("TypeError")
        /\ (AtomsAreStrings /\ ~CoordsAreRowsOfThree) => MakeContractionsRejected("TypeError")
        /\ (AtomsAreStrings /\ CoordsAreRowsOfThree
               /\ Len(margs.atoms.items) # margs.coords.shape[1]) =>
              MakeContractionsRejected("ValueError")
        /\ (blast.op = "make_contractions" /\ blast.exc \in {"TypeError", "ValueError"}) =>
              ctorCalls = 0

\* atoms holds an entry that is not a string, and has one entry for two rows
C11_Witness ==
    /\ bpc = "raised" /\ blast.exc = "TypeError"
    /\ margs.atoms.tag = "list" /\ ~AtomsAreStrings
    /\ CoordsAreRowsOfThree /\ Len(margs.atoms.items) # margs.coords.shape[1]

\* the shells of the atoms before atom i
RECURSIVE ShellsBefore(_, _)
ShellsBefore(items, i) ==
    IF i <= 1 THEN 0
    ELSE ShellsBefore(items, i - 1) + Len(BasisDict[items[i - 1].name])

\* C12: for a list/tuple of atoms of basis_dict and an (N, 3) array of as many
\* rows, make_contractions returns sum of len(basis_dict[atom]) shells, one
\* constructor call each; the shell of entry j of atom i comes after all
\* shells of the atoms before i and is the j-th of its atom, has the angmom
\* and exponents of the entry and its coefficients (as a column if they are
\* one-dimensional), and its center shows row i of coords.
C12_ShellsInOrder ==
    (/\ bpc \in {"raised", "returned"} /\ bops = 0
     /\ AtomsAreStrings /\ CoordsAreRowsOfThree
     /\ Len(margs.atoms.items) = margs.coords.shape[1]
     /\ \A i \in 1 .. Len(margs.atoms.items) : margs.atoms.items[i].name \in DOMAIN BasisDict)
    => LET items == margs.atoms.items
           n == Len(items)
       IN /\ bpc = "returned"
          /\ Len(basis) = ShellsBefore(items, n + 1)
          /\ ctorCalls = Len(basis)
          /\ \A i \in 1 .. n : \A j \in 1 .. Len(BasisDict[items[i].name]) :
                LET sh == basis[ShellsBefore(items, i) + j]
                    e == BasisDict[items[i].name][j]
                IN /\ sh.class = "GeneralizedContractionShell"
                   /\ sh.angmom = e.angmom
                   /\ sh.exps = e.exps
                   /\ sh.coeffs.buf = e.coeffs.buf
                   /\ Data(mem, sh.coeffs) = Data(mem, e.coeffs)
                   /\ sh.coeffs.shape =
                         IF Len(e.coeffs.shape) = 1 THEN <<e.coeffs.shape[1], 1>>
                         ELSE e.coeffs.shape
                   /\ Data(mem, sh.coord) =
                         [x \in 1 .. 3 |->
                             mem[margs.coords.buf][margs.coords.off + 3 * (i - 1) + x]]

\* two atoms, three shells: those of H, then that of He
C12_Witness ==
    /\ bpc = "returned" /\ bops = 0
    /\ margs.atoms.items = <<AtomStr("H"), AtomStr("He")>>
    /\ Len(basis) = 3
    /\ basis[2].angmom = PyInt(1) /\ basis[3].coeffs.shape = <<2, 2>>

\* C13: construct_array_contraction raises TypeError when an argument is not
\* a GeneralizedContractionShell, about the first argument when neither is,
\* without calling the engine; for two shells it calls the engine once, with
\* the single order (0, 0, 0), and returns a block of shape
\* (M_1, L_cart_1, M_2, L_cart_2).
C13_ContractionBlock ==
    (fpc = "done" /\ fargs.fn = "construct_array_contraction") =>
        LET one == fargs.one
            two == fargs.two
            isOne == one.class = "GeneralizedContractionShell"
            isTwo == two.class = "GeneralizedContractionShell"
        IN /\ ~isOne =>
                /\ fres.exc = "TypeError" /\ fres.blame = "contractions_one"
                /\ fres.engine = 0
           /\ (isOne /\ ~isTwo) =>
                /\ fres.exc = "TypeError" /\ fres.blame = "contractions_two"
                /\ fres.engine = 0
           /\ (isOne /\ isTwo) =>
                /\ fres.exc = "none"
                /\ fres.engine = 1
                /\ fres.orders = << <<0, 0, 0>> >>
                /\ fres.shape = <<one.coeffs.shape[2],
                                  ((one.angmom.val + 1) * (one.angmom.val + 2)) \div 2,
                                  two.coeffs.shape[2],
                                  ((two.angmom.val + 1) * (two.angmom.val + 2)) \div 2>>

\* a shell of angular momentum 2 and one contraction against an object that
\* is no shell, and the block of that shell with an s shell of two
C13_Witness ==
    /\ fpc = "done" /\ fargs.fn = "construct_array_contraction"
    /\ fargs.one = ShellOf(2, Value(5))
    /\ \/ fargs.two = LookAlike(ShellOf(0, Value(7))) /\ fres.exc = "TypeError"
       \/ fargs.two = ShellOf(0, Value(7)) /\ fres.shape = <<1, 6, 2, 1>>


\* what the caller of electrostatic_potential or overlap_integral passed
Called(fn) == fpc = "done" /\ fargs.fn = fn
CoordTypeIsLiteral(ct) ==
    ct.tag = "str" /\ ct.val \in {"cartesian", "spherical"}
CoordTypeIsRecognized(ct) ==
    \/ CoordTypeIsLiteral(ct)
    \/ /\ ct.tag \in {"list", "tuple"}
       /\ \A i \in 1 .. Len(ct.items) : CoordTypeIsLiteral(ct.items[i])

\* C14: a call of overlap_integral or of electrostatic_potential with a
\* coord_type that is not "cartesian", not "spherical" and not a list/tuple
\* of these two is rejected: it raises.
C14_CoordTypeRejected ==
    (/\ fpc = "done" /\ fargs.fn \in {"overlap_integral", "electrostatic_potential"}
     /\ ~CoordTypeIsRecognized(fargs.coord_type))
    => fres.exc # "none"

\* a list with an entry that is neither literal, given to overlap_integral,
\* and one given to electrostatic_potential that passes its own checks
C14_Witness ==
    /\ fpc = "done" /\ fargs.fn \in {"overlap_integral", "electrostatic_potential"}
    /\ fargs.coord_type = PyList(<<Str("polar")>>)
    /\ \/ fargs.fn = "overlap_integral" /\ fargs.transform = None /\ fres.exc # "none"
       \/ /\ fargs.fn = "electrostatic_potential" /\ fargs.transform = None
          /\ fres.by = "point_charge_integral"

\* C15 (as claimed): electrostatic_potential, given a list/tuple coord_type
\* whose length is not the number of shells of the basis, raises before it
\* calls point_charge_integral.
C15_LengthRejectedEarly ==
    (/\ Called("electrostatic_potential")
     /\ fargs.coord_type.tag \in {"list", "tuple"}
     /\ Len(fargs.coord_type.items) # Len(fargs.basis))
    => (fres.exc # "none" /\ fres.pci = 0)

DmIsMatrix == fargs.dm.tag = "ndarray" /\ Len(fargs.dm.shape) = 2
DmIsSquare == DmIsMatrix /\ fargs.dm.shape[1] = fargs.dm.shape[2]
DmIsSymmetric ==
    /\ DmIsSquare
    /\ \A i \in 1 .. fargs.dm.shape[1], j \in 1 .. fargs.dm.shape[1] :
           fargs.dm.data[(i - 1) * fargs.dm.shape[1] + j]
             = fargs.dm.data[(j - 1) * fargs.dm.shape[1] + i]
NucleiAreTyped ==
    /\ fargs.nuclei.tag = "ndarray" /\ Len(fargs.nuclei.shape) = 2
    /\ fargs.nuclei.shape[2] = 3
    /\ fargs.charges.tag = "ndarray" /\ Len(fargs.charges.shape) = 1

\* C16: electrostatic_potential raises TypeError when one_density_matrix is
\* not a two-dimensional numpy array; a two-dimensional matrix that is not
\* square or not equal to its transpose is rejected before any integral, with
\* ValueError when the nuclear arguments have their documented types; the
\* transpose is compared only when the matrix is square.
C16_DensityMatrixChecked ==
    Called("electrostatic_potential") =>
        /\ ~DmIsMatrix => (fres.exc = "TypeError" /\ fres.pci = 0 /\ fres.allclose = 0)
        /\ (DmIsMatrix /\ ~DmIsSymmetric) =>
              /\ fres.exc \in {"TypeError", "ValueError"} /\ fres.pci = 0
              /\ NucleiAreTyped => fres.exc = "ValueError"
        /\ (DmIsMatrix /\ ~DmIsSquare) => fres.allclose = 0
        /\ fres.allclose > 0 => DmIsSquare

\* a 2 x 3 matrix, for which the transpose is not compared, and a square
\* matrix that is not symmetric, for which it is
C16_Witness ==
    /\ Called("electrostatic_potential") /\ fres.exc = "ValueError"
    /\ \/ fargs.dm.shape = <<2, 3>> /\ fres.allclose = 0
       \/ fargs.dm.data = <<1, 2, 0, 1>> /\ fres.allclose = 1

\* the arguments pass the checks made before the coordinate type is looked at
EarlierChecksPass ==
    /\ DmIsSymmetric /\ NucleiAreTyped
    /\ fargs.nuclei.shape[1] = fargs.charges.shape[1]
    /\ fargs.threshold.tag \in {"int", "bool", "float"} /\ fargs.threshold.val >= 0

\* the number of contractions of shells 1 .. n of the call, each in the
\* coordinate type kinds[i]
RECURSIVE DeclaredSize(_, _)
DeclaredSize(kinds, n) ==
    IF n = 0 THEN 0
    ELSE LET sh == fargs.basis[n]
             l == sh.angmom.val
         IN DeclaredSize(kinds, n - 1) +
            sh.coeffs.shape[2] *
              (IF kinds[n] = "spherical" THEN 2 * l + 1 ELSE ((l + 1) * (l + 2)) \div 2)

\* the kinds a recognized coord_type declares, one per shell
DeclaredKinds ==
    IF fargs.coord_type.tag = "str"
    THEN [i \in 1 .. Len(fargs.basis) |-> fargs.coord_type.val]
    ELSE [i \in 1 .. Len(fargs.coord_type.items) |-> fargs.coord_type.items[i].val]

CoordTypeIsPerShell ==
    /\ CoordTypeIsRecognized(fargs.coord_type)
    /\ fargs.coord_type.tag \in {"list", "tuple"} =>
          Len(fargs.coord_type.items) = Len(fargs.basis)

\* C17: with no transform and arguments that pass the earlier checks,
\* electrostatic_potential raises ValueError, before any integral, when the
\* density matrix has not as many rows as the basis has contractions in the
\* coordinate type declared ("cartesian", "spherical" or one of them per
\* shell), and passes on to the integrals when it has.
C17_SizeChecked ==
    (/\ Called("electrostatic_potential") /\ fargs.transform.tag = "None"
     /\ EarlierChecksPass /\ CoordTypeIsPerShell)
    => LET size == DeclaredSize(DeclaredKinds, Len(fargs.basis))
       IN /\ fargs.dm.shape[1] # size => (fres.exc = "ValueError" /\ fres.pci = 0)
          /\ fargs.dm.shape[1] = size => (fres.exc # "ValueError" /\ fres.pci = 1)

\* two shells of angular momentum 2 or more, the first spherical, the second
\* Cartesian, and a density matrix of that size; and one of the Cartesian
\* size for a spherical basis, which is rejected
C17_Witness ==
    /\ Called("electrostatic_potential") /\ fargs.transform.tag = "None"
    /\ Len(fargs.basis) = 2
    /\ fargs.basis[1].angmom.val >= 2 /\ fargs.basis[2].angmom.val >= 2
    /\ fargs.coord_type = PyList(<<Str("spherical"), Str("cartesian")>>)
    /\ fres.exc = "none"
    /\ fargs.dm.shape[1] = DeclaredSize(<<"spherical", "cartesian">>, 2)
    /\ fargs.dm.shape[1] # DeclaredSize(<<"cartesian", "cartesian">>, 2)
    /\ fargs.dm.shape[1] # DeclaredSize(<<"spherical", "spherical">>, 2)

\* the transform has one column per contraction of the basis
TransformFitsBasis ==
    /\ fargs.transform.tag = "ndarray" /\ Len(fargs.transform.shape) = 2
    /\ CoordTypeIsPerShell
    /\ fargs.transform.shape[2] = DeclaredSize(DeclaredKinds, Len(fargs.basis))

\* C18 (as claimed): with a transform of shape (K_orbs, K_cont) that fits the
\* basis, a symmetric K_orbs x K_orbs density matrix raises no ValueError
\* about its size, whatever K_orbs is: the integrals are called.
C18_TransformedSizeAccepted ==
    (/\ Called("electrostatic_potential")
     /\ TransformFitsBasis /\ EarlierChecksPass
     /\ fargs.dm.shape[1] = fargs.transform.shape[1])
    => (fres.by # "electrostatic_potential" /\ fres.pci = 1)

\* a usage error of the kinds the claim lists
TransformMisfitsBasis ==
    /\ fargs.transform.tag # "None"
    /\ ~TransformFitsBasis
UsageErrorCheckedLocally ==
    \/ ~DmIsSymmetric
    \/ ~NucleiAreTyped
    \/ NucleiAreTyped /\ fargs.nuclei.shape[1] # fargs.charges.shape[1]
    \/ ~(fargs.threshold.tag \in {"int", "bool", "float"} /\ fargs.threshold.val >= 0)
    \/ ~(CoordTypeIsLiteral(fargs.coord_type) \/ fargs.coord_type.tag \in {"list", "tuple"})
    \/ /\ DmIsSquare /\ CoordTypeIsPerShell
       /\ fargs.dm.shape[1] # DeclaredSize(DeclaredKinds, Len(fargs.basis))
UsageError ==
    \/ UsageErrorCheckedLocally
    \/ ~CoordTypeIsRecognized(fargs.coord_type)
    \/ TransformMisfitsBasis

\* C19 (as claimed): a call of electrostatic_potential with a usage error
\* (density matrix, nuclei, charges, threshold, coordinate type, transform)
\* raises, and has not called point_charge_integral.
C19_AllBeforeIntegral ==
    (Called("electrostatic_potential") /\ UsageError)
    => (fres.exc # "none" /\ fres.pci = 0)

\* C20 (as claimed): for threshold_dist t > 0 and positive nuclear charges,
\* the contribution of nucleus n at point p is set to 0 exactly when the
\* distance of p from n is less than t.
C20_ZeroedIffCloser ==
    (/\ Called("electrostatic_potential") /\ fres.exc = "none"
     /\ fargs.threshold.val > 0
     /\ \A n \in 1 .. fargs.charges.shape[1] : fargs.charges.data[n] > 0)
    => \A p \in 1 .. fargs.points.shape[1], n \in 1 .. fargs.nuclei.shape[1] :
          LET d(c) == fargs.points.data[3 * (p - 1) + c] - fargs.nuclei.data[3 * (n - 1) + c]
              distSq == d(1) * d(1) + d(2) * d(2) + d(3) * d(3)
              t == fargs.threshold.val
          IN fres.mask[p][n] <=> distSq < t * t


\* the square of the distance of point p of the call from its nucleus n
DistSqOf(p, n) ==
    LET d(c) == fargs.points.data[3 * (p - 1) + c] - fargs.nuclei.data[3 * (n - 1) + c]
    IN d(1) * d(1) + d(2) * d(2) + d(3) * d(3)

\* C21 (as claimed): when electrostatic_potential returns, for a
\* threshold_dist >= 0 and positive nuclear charges, the contribution of a
\* nucleus to a point that coincides with it is 0, and no contribution is
\* NaN or Inf.
C21_CoincidentIsZero ==
    (/\ Called("electrostatic_potential") /\ fres.exc = "none"
     /\ \A n \in 1 .. fargs.charges.shape[1] : fargs.charges.data[n] > 0)
    => \A p \in 1 .. fargs.points.shape[1], n \in 1 .. fargs.nuclei.shape[1] :
          /\ DistSqOf(p, n) = 0 =>
                (fres.external[p][n].kind = "quot" /\ fres.external[p][n].num = 0)
          /\ fres.external[p][n].kind \notin {"inf", "-inf", "nan"}

\* C22: when electrostatic_potential returns for a threshold_dist of 0,
\* float or int, no nucleus is discarded: the contribution of every nucleus
\* to every point is its charge divided by its distance, num / sqrt(densq),
\* and at distance 0 what that division gives.
C22_NoneDiscardedAtZero ==
    (/\ Called("electrostatic_potential") /\ fres.exc = "none"
     /\ fargs.threshold.val = 0)
    => \A p \in 1 .. fargs.points.shape[1], n \in 1 .. fargs.nuclei.shape[1] :
          LET z == fargs.charges.data[n]
              c == fres.external[p][n]
          IN /\ ~fres.mask[p][n]
             /\ DistSqOf(p, n) > 0 =>
                   (c.kind = "quot" /\ c.num = z /\ c.densq = DistSqOf(p, n))
             /\ DistSqOf(p, n) = 0 =>
                   c.kind = (IF z > 0 THEN "inf" ELSE IF z < 0 THEN "-inf" ELSE "nan")

\* an integer threshold of 0, the largest charge and a point at the largest
\* distance from the nucleus
C22_Witness ==
    /\ Called("electrostatic_potential") /\ fres.exc = "none"
    /\ fargs.threshold = PyInt(0)
    /\ fargs.charges.data = <<MaxCharge>>
    /\ fargs.points.data = <<MaxDist, 0, 0>>
    /\ fres.external[1][1] = [kind |-> "quot", num |-> MaxCharge, densq |-> MaxDist * MaxDist]


\* C23: overlap_integral takes exactly one construction path and returns
\* what the function of gbasis.overlap for that path returns on the same
\* arguments: overlap_lincomb when a transform is given, whatever the
\* coord_type; without one overlap_cartesian for "cartesian",
\* overlap_spherical for "spherical" and overlap_mix for anything else.
C23_OneConstructionPath ==
    Called("overlap_integral") =>
        LET bas == fargs.basis
            t == fargs.transform
            ct == fargs.coord_type
        IN IF t.tag # "None"
           THEN /\ fres.method = "construct_array_lincomb"
                /\ \E lib \in LibChoices : fres = OverlapLincomb(bas, t, ct, lib)
           ELSE IF IsStr(ct, "cartesian")
           THEN /\ fres.method = "construct_array_cartesian"
                /\ fres = OverlapCartesian(bas)
           ELSE IF IsStr(ct, "spherical")
           THEN /\ fres.method = "construct_array_spherical"
                /\ fres = OverlapSpherical(bas)
           ELSE /\ fres.method = "construct_array_mix"
                /\ \E lib \in LibChoices : fres = OverlapMix(bas, ct, lib)

\* a transformation given together with the coord_type "cartesian": the
\* array is the transformed one
C23_Witness ==
    /\ Called("overlap_integral")
    /\ fargs.transform.tag # "None" /\ IsStr(fargs.coord_type, "cartesian")
    /\ fres.exc = "none" /\ fres.method = "construct_array_lincomb"
    /\ fres.shape = <<fargs.transform.shape[1], fargs.transform.shape[1]>>
    /\ fres.shape # ConstructArrayCartesian(fargs.basis).shape


\* an assignment to one of the four attributes of the constructed shell that
\* raised TypeError or ValueError
SetterRaised(l) ==
    /\ l.phase = "set" /\ l.op \in {"coord", "angmom", "exps", "coeffs"}
    /\ l.exc \in {"TypeError", "ValueError"}

\* C25: an assignment to coord, angmom, exps or coeffs of a constructed shell
\* that raises TypeError or ValueError leaves every attribute of the shell,
\* norm_cont included, and the data of every array as they were.
C25_RaisingSetterLeavesShell ==
    [][(Constructed /\ ops' = ops + 1 /\ SetterRaised(last'))
         => (shell' = shell /\ mem' = mem)]_vars

\* a rejected assignment to exps as the second statement on a shell whose
\* norm_cont is assigned
C25_Witness ==
    /\ Constructed /\ ops = 2 /\ SetterRaised(last)
    /\ last.op = "exps" /\ last.exc = "ValueError"
    /\ HasAttr(shell.norm_cont) /\ Size(shell.exps) # Size(last.arr)

\* C26 (as claimed): no statement on a constructed shell changes its number
\* of primitives, neither the number of exponents nor the number of rows of
\* coeffs.  Stated for shells constructed from arrays of the documented
\* shapes.
C26_PrimitiveCountFixed ==
    [][(Constructed /\ ctorDocumented)
         => /\ Size(shell.exps)' = Size(shell.exps)
            /\ shell.coeffs.shape[1]' = shell.coeffs.shape[1]]_vars


\* np.geterr() after the call: np.seterr(divide="ignore") stays in force
\* unless np.seterr(**old_settings) was reached
SettingsAfter ==
    IF fres.silenced = 1 /\ fres.restored = 0
    THEN [fargs.seterr EXCEPT !.divide = "ignore"]
    ELSE fargs.seterr

\* C27 (as claimed): when electrostatic_potential has returned or raised,
\* the floating point error settings of numpy are the ones that were in
\* force before the call.
C27_SettingsRestored ==
    Called("electrostatic_potential") => SettingsAfter = fargs.seterr

====
